---- MODULE Spec2Model ----
(***************************************************************************)
(* Model of the Kodi JSON-RPC client (src/kodi_jsonrpc.go, lines 1-343):   *)
(* Connection.Send, Response.Read, Connection.Close, the reader and writer *)
(* goroutines and connect.  One Connection; its callers are one goroutine  *)
(* per Send call (a "handle"), one closer and one notification consumer.   *)
(* A panic of any goroutine ends the Go process: no action is enabled once *)
(* panic is set.                                                           *)
(***************************************************************************)
EXTENDS Integers, Sequences, FiniteSets, TLC

\* ---- bounds of the model ----
MaxSends == 2        \* Send calls made by the callers after New returned
MaxReads == 2        \* Read calls made by the callers
MaxEvents == 2       \* events from outside: messages the peer sends (responses,
                     \* notifications, junk), failures of the transport and
                     \* notifications the application consumes
MaxFlood == 17       \* notifications the peer sends in the flood scenario
MaxConsumed == 1     \* notifications the consumer takes in the flood scenario
MaxBurst == 18       \* Send calls the burst caller makes
MaxCloses == 2       \* Close calls
MaxAttempts == 3     \* failed dials of one connect
MaxMajor == 7        \* largest version.major the peer reports
MaxDials == 2        \* successful dials after the first one
MaxRefused == 1      \* Send calls whose Params json.Marshal refuses
IdModulus == 8       \* stands for 2^32, the range of the uint32 c.requestId, which
                     \* is beyond TLC's integers

\* ---- program constants ----
KODI_MIN_VERSION == 6
QueueCap == 16       \* make(chan ..., 16) for c.write and c.Notifications

NoId == -1           \* req.Id == nil / res.Id == nil
NoChan == -1         \* a nil channel pointer
NoHolder == -1       \* responseLock is free
NilConn == -1        \* c.conn == nil: what a failed net.Dial leaves (lines 248, 253)
NoEnc == -2          \* the writer is not inside Encode

Handles == 1..MaxSends          \* the Send calls of the callers
InitHandle == 0                 \* the Send of JSONRPC.Version made by init
AllHandles == 0..MaxSends
\* A caller that calls Send again and again and never reads; its Responses
\* are not followed one by one.
BurstCaller == MaxSends + 1
Callers == 0..(MaxSends + 1)    \* every goroutine that calls Send
CallerIds == {NoId, MaxSends}   \* req.Id as the caller passes it to Send
WireIds == 0..MaxSends          \* identifiers the peer may put on a response

VARIABLES
    Closed,            \* c.Closed
    write,             \* c.write: queued requests
    writeClosed,       \* close(c.write) has run
    Notifications,     \* c.Notifications: queued notifications
    notifClosed,       \* close(c.Notifications) has run
    writeWait,         \* c.writeWait counter
    notificationWait,  \* c.notificationWait counter of the reader's Connection
    requestId,         \* c.requestId
    responses,         \* c.responses: id -> channel (a channel is named by its handle)
    lockHolder,        \* the Send holding c.responseLock, or NoHolder
    conn, enc, dec,    \* c.conn, c.enc, c.dec: the dial each one belongs to
    down,              \* the dials whose connection is closed or broken
    dials,             \* dials made so far
    sendPc,            \* per caller: where its Send call is
    want,              \* per handle: want_response
    encodable,         \* per handle: json.Marshal accepts req (its Params)
    reqId,             \* per handle: req.Id
    resPending,        \* per handle: res.Pending of the returned Response
    chanClosed,        \* per channel: close(ch) has run
    afterClose,        \* per handle: Send was called when c.Closed was set
    readPc,            \* per handle: "idle" or "waiting" in Read
    readTimeout,       \* per handle: the timeout of the Read in progress
    reads,             \* per handle: the outcomes of the Reads that returned
    rPc, rMsg, rCh,    \* reader goroutine: position, decoded message, channel
    rDec,              \* reader goroutine: the decoder its Decode call runs on
    decSwapped,        \* c.dec was assigned since that Decode call started
    wPc, wReq,         \* writer goroutine: position, request in hand
    wEnc,              \* writer goroutine: the encoder its Encode call runs on
    wire,              \* requests encoded to the transport, in order
    closePc,           \* closer: position inside Close
    closeCalls,        \* Close calls started
    closeReturns,      \* Close calls returned
    events,            \* outside events so far
    notifs,            \* notifications decoded so far
    consumed,          \* notifications consumed so far
    bursts,            \* Send calls of the burst caller that have returned
    panic,             \* "none", or the reason the process died
    boot               \* the call of New that made the Connection

vars == <<Closed, write, writeClosed, Notifications, notifClosed, writeWait,
          notificationWait, requestId, responses, lockHolder, conn, enc, dec,
          down, dials, sendPc, want, encodable, reqId, resPending, chanClosed,
          afterClose,
          readPc, readTimeout, reads, rPc, rMsg, rCh, rDec, decSwapped, wPc, wReq,
          wEnc,
          wire, closePc, closeCalls, closeReturns, events, notifs, consumed,
          bursts, panic, boot>>

connVars == <<conn, enc, dec, down, dials>>
tableVars == <<requestId, responses, lockHolder>>
queueVars == <<write, writeClosed, Notifications, notifClosed>>
waitVars == <<writeWait, notificationWait>>
sendVars == <<sendPc, want, encodable, reqId, resPending, afterClose>>
readVars == <<readPc, readTimeout, reads>>
readerVars == <<rPc, rMsg, rCh, rDec, decSwapped>>
writerVars == <<wPc, wReq, wEnc, wire>>
closeVars == <<Closed, closePc, closeCalls, closeReturns>>
envVars == <<events, notifs, consumed, bursts>>

Running == panic = "none"

Range(f) == {f[x] : x \in DOMAIN f}

\* ---- messages ----
\* A request as the writer sees it: its id (NoId when none) and the handle it
\* came from (ghost).
Request(id, h) == [id |-> id, h |-> h]
NullRequest == [id |-> NoId, h |-> -1]   \* the zero value read from a closed c.write

\* What the transport of dial k holds of a request that Encode wrote to it.
Written(r, k) == [id |-> r.id, h |-> r.h, on |-> k]

\* A decoded rpcResponse: Id (in halves, as the float64 on the wire; NoId when
\* absent), whether Method is set, which of Result / Error is set (body is
\* "result", "error" or "empty"), and the Code and Message of Error.
Message(id2, method, body) ==
    [id2 |-> id2, method |-> method, body |-> body, code |-> 0, message |-> ""]

\* rpcError (lines 51-55): Code and Message
RpcError(code, message) == [code |-> code, message |-> message]

\* A decoded rpcResponse whose Error is e.
ErrorMessage(id2, e) ==
    [id2 |-> id2, method |-> FALSE, body |-> "error", code |-> e.code,
     message |-> e.message]
EmptyMessage == Message(NoId, FALSE, "empty")   \* new(rpcResponse)

\* The reader's rule for a decoded message (lines 295, 303, 313): no Id and
\* a Method is a notification; an Id is a response, with or without a
\* Method; neither is unparseable.
Classify(m) ==
    IF m.id2 = NoId /\ m.method THEN "notification"
    ELSE IF m.id2 # NoId THEN "response"
    ELSE "unparseable"

\* The error objects the peer sends.
PeerErrors ==
    {RpcError(-32601, "Method not found."), RpcError(-32602, "Invalid params.")}

\* The identifiers the peer sends, in halves: any JSON number, whole or not.
PeerIds == 0..(2 * MaxSends + 1)

\* The responses the peer sends: a result or an error object, under any
\* identifier.
PeerResponses ==
    {Message(i2, FALSE, "result") : i2 \in PeerIds}
        \cup {ErrorMessage(i2, e) : i2 \in PeerIds, e \in PeerErrors}

\* uint32(*res.Id): float64 -> uint32 truncates toward zero
ToUint32(id2) == id2 \div 2

\* ---- outcomes of Read ----
\* What Read returns: err, whether result is a mapping (not nil), and the Id
\* (in halves) of the response it was unpacked from, NoId when there is none.
\* code and message are the two values that the text of a Kodi error is
\* formatted from.
Outcome(err, from) ==
    [err |-> err, from |-> from, result |-> FALSE, code |-> 0, message |-> ""]
Result(from) ==
    [err |-> "", from |-> from, result |-> TRUE, code |-> 0, message |-> ""]
\* errors.New(fmt.Sprintf("Kodi error (%v): %v", code, message))
KodiError(code, message, from) ==
    [err |-> "Kodi error", from |-> from, result |-> FALSE, code |-> code,
     message |-> message]
NoPendingResponse == Outcome("No pending responses!", NoId)
ReadTimedOut == Outcome("Timeout waiting on response channel", NoId)
NilChannel == Outcome("Expected response channel, but got nil!", NoId)

\* (mutant) unpack that formats the error from its code alone
unpack_MessageDropped(m) ==
    IF m.body = "error" THEN KodiError(m.code, "", m.id2)
    ELSE IF m.body = "result" THEN Result(m.id2)
    ELSE Outcome("", NoId)

\* rpcResponse.unpack: the error, or the result, or neither.  from is the
\* Id (in halves) of the response the returned value was taken from.
unpack(m) ==
    IF m.body = "error" THEN KodiError(m.code, m.message, m.id2)
    ELSE IF m.body = "result" THEN Result(m.id2)
    ELSE Outcome("", NoId)

\* ---- New and Connection.init (lines 110-115, 171-206) ----
\* What the peer sends back for JSONRPC.Version: an error object; neither
\* result nor error ("empty"); a result whose "version" is missing or is no
\* object ("noversion"); a version whose "major" is missing or is no number
\* ("nomajor"); or a version with a major, counted in halves as the float64
\* it is decoded to.
NoResponse == [kind |-> "none", major2 |-> 0]
VersionResponse(m2) == [kind |-> "version", major2 |-> m2]
BootResponses ==
    {[kind |-> k, major2 |-> 0] : k \in {"error", "empty", "noversion", "nomajor"}}
        \cup {VersionResponse(m2) : m2 \in 0..(2 * MaxMajor)}
BootTimeouts == {0, 1, 2}    \* the timeout given to New, in seconds

\* A call of New: where it is, its timeout, the dials that failed, the
\* response init's Read received, the error New returns, and the value of
\* notificationWait in the Connection that New returns.
Boot(pc, t, n, r, e, w) ==
    [pc |-> pc, timeout |-> t, attempts |-> n, response |-> r, err |-> e,
     wait |-> w]

\* New(address, 0) answered on the first dial with the minimum version.
Booted(w) == Boot("returned", 0, 0, VersionResponse(2 * KODI_MIN_VERSION), "", w)

\* ---- initial state: New has returned without error ----
\* init dialled, started reader and writer, sent JSONRPC.Version with id 0,
\* and its Read received the response and closed the channel.  New returns
\* the Connection by value while the reader runs on the original: when the
\* peer sends a notification right after its answer, the copy is made with
\* the reader before c.notificationWait.Add(1) (counter 0 in the copy) or
\* between Add(1) and Done() (counter 1 in the copy).
Init ==
    /\ Closed = FALSE
    /\ write = <<>>
    /\ writeClosed = FALSE
    /\ Notifications = <<>>
    /\ notifClosed = FALSE
    /\ writeWait = 0
    /\ \E w \in {0, 1} :
         /\ boot = Booted(w)
         /\ notificationWait = w
         /\ notifs = w
         /\ rPc = IF w = 1 THEN "notify" ELSE "decode"
         /\ rMsg = IF w = 1 THEN Message(NoId, TRUE, "empty") ELSE EmptyMessage
    /\ requestId = 1
    /\ responses = (0 :> InitHandle)
    /\ lockHolder = NoHolder
    /\ conn = 0 /\ enc = 0 /\ dec = 0
    /\ down = {}
    /\ dials = 0
    /\ sendPc = [h \in Callers |-> IF h = InitHandle THEN "done" ELSE "idle"]
    /\ want = [h \in Callers |-> h = InitHandle]
    /\ encodable = [h \in Callers |-> TRUE]
    /\ reqId = [h \in Callers |-> IF h = InitHandle THEN 0 ELSE NoId]
    /\ resPending = [h \in Callers |-> h = InitHandle]
    /\ chanClosed = [h \in Callers |-> h = InitHandle]
    /\ afterClose = [h \in Callers |-> FALSE]
    /\ readPc = [h \in Handles |-> "idle"]
    /\ readTimeout = [h \in Handles |-> 0]
    /\ reads = [h \in Handles |-> <<>>]
    /\ rCh = NoChan /\ rDec = 0 /\ decSwapped = FALSE
    /\ wPc = "recv" /\ wReq = NullRequest /\ wEnc = NoEnc
    /\ wire = <<Written(Request(0, InitHandle), 0)>>
    /\ closePc = "idle" /\ closeCalls = 0 /\ closeReturns = 0
    /\ events = 0 /\ consumed = 0 /\ bursts = 0
    /\ panic = "none"

\* A panic (or a fatal error of the runtime) ends the process: every
\* goroutine, queue and handle is gone, and only the reason is left.
Crash(reason) ==
    /\ panic' = reason
    /\ boot' = boot
    /\ Closed' = FALSE
    /\ write' = <<>>
    /\ writeClosed' = FALSE
    /\ Notifications' = <<>>
    /\ notifClosed' = FALSE
    /\ writeWait' = 0
    /\ notificationWait' = 0
    /\ requestId' = 0
    /\ responses' = <<>>
    /\ lockHolder' = NoHolder
    /\ conn' = 0 /\ enc' = 0 /\ dec' = 0
    /\ down' = {}
    /\ dials' = 0
    /\ sendPc' = [h \in Callers |-> "idle"]
    /\ want' = [h \in Callers |-> FALSE]
    /\ encodable' = [h \in Callers |-> TRUE]
    /\ reqId' = [h \in Callers |-> NoId]
    /\ resPending' = [h \in Callers |-> FALSE]
    /\ chanClosed' = [h \in Callers |-> FALSE]
    /\ afterClose' = [h \in Callers |-> FALSE]
    /\ readPc' = [h \in Handles |-> "idle"]
    /\ readTimeout' = [h \in Handles |-> 0]
    /\ reads' = [h \in Handles |-> <<>>]
    /\ rPc' = "dead" /\ rMsg' = EmptyMessage /\ rCh' = NoChan /\ rDec' = 0
    /\ decSwapped' = FALSE
    /\ wPc' = "dead" /\ wReq' = NullRequest /\ wEnc' = NoEnc
    /\ wire' = <<>>
    /\ closePc' = "dead" /\ closeCalls' = 0 /\ closeReturns' = 0
    /\ events' = 0 /\ notifs' = 0 /\ consumed' = 0 /\ bursts' = 0

\* ---- Connection.Send (lines 211-237) ----
NextRequestId(r) == (r + 1) % IdModulus   \* c.requestId++ on a uint32

\* The call Send(req, w) with req.Id = x: req.JsonRPC, res := Response{},
\* c.writeWait.Add(1).  req.Id stays as the caller passed it unless line 223
\* replaces it.  req.Params is the caller's map (line 46): b says whether
\* json.Marshal accepts it (a channel, a function or a NaN in it is refused).
\* The calls of the handles are numbered in the order they start.
SendCall(h, w, x, b) ==
    /\ Running
    /\ sendPc[h] = "idle"
    /\ h \in Handles => \A g \in Handles : g < h => sendPc[g] # "idle"
    /\ b \/ Cardinality({g \in Callers : ~encodable[g]}) < MaxRefused
    /\ want' = [want EXCEPT ![h] = w]
    /\ encodable' = [encodable EXCEPT ![h] = b]
    /\ reqId' = [reqId EXCEPT ![h] = x]
    /\ afterClose' = [afterClose EXCEPT ![h] = Closed]
    /\ writeWait' = writeWait + 1
    /\ sendPc' = [sendPc EXCEPT ![h] = IF w THEN "lock" ELSE "enqueue"]
    /\ resPending' = [resPending EXCEPT ![h] = FALSE]
    /\ UNCHANGED <<connVars, tableVars, queueVars, notificationWait,
                   chanClosed, readVars, readerVars, writerVars,
                   closeVars, envVars, panic, boot>>

\* c.responseLock.Lock() goes through when no Send holds the lock
LockFree == lockHolder = NoHolder

\* c.responseLock.Lock(); id := c.requestId; ch := make(chan *rpcResponse)
SendLock(h) ==
    /\ Running
    /\ sendPc[h] = "lock"
    /\ LockFree
    /\ lockHolder' = h
    /\ reqId' = [reqId EXCEPT ![h] = requestId]
    /\ sendPc' = [sendPc EXCEPT ![h] = "register"]
    /\ UNCHANGED <<connVars, requestId, responses, queueVars, waitVars, want, encodable,
                   resPending, chanClosed, afterClose, readVars, readerVars,
                   writerVars, closeVars, envVars, panic, boot>>

\* (mutant) the channel is not stored in the table
SendRegister_Unstored(h) ==
    /\ Running
    /\ sendPc[h] = "register"
    /\ requestId' = NextRequestId(requestId)
    /\ lockHolder' = NoHolder
    /\ sendPc' = [sendPc EXCEPT ![h] = "enqueue"]
    /\ UNCHANGED <<connVars, responses, queueVars, waitVars, want, encodable, reqId,
                   resPending, chanClosed, afterClose, readVars, readerVars,
                   writerVars, closeVars, envVars, panic, boot>>

\* c.responses[id] = &ch; c.requestId++; c.responseLock.Unlock(); req.Id = &id
SendRegister(h) ==
    /\ Running
    /\ sendPc[h] = "register"
    /\ responses' = (reqId[h] :> h) @@ responses
    /\ requestId' = NextRequestId(requestId)
    /\ lockHolder' = NoHolder
    /\ sendPc' = [sendPc EXCEPT ![h] = "enqueue"]
    /\ UNCHANGED <<connVars, queueVars, waitVars, want, encodable, reqId, resPending,
                   chanClosed, afterClose, readVars, readerVars, writerVars,
                   closeVars, envVars, panic, boot>>

\* res.Pending of the Response that Send returns: true on the want_response
\* branch (line 228), false on the other (line 232).
SendPending(w) == w

\* res.channel of the Response that Send returns: the new channel on the
\* want_response branch (line 227), nil on the other.
SendChannel(h) == IF want[h] THEN h ELSE NoChan

\* (mutant) a request jumps the queue
Enqueued_Front(q, r) == <<r>> \o q

\* c.write <- req: the channel is first in, first out
Enqueued(q, r) == Append(q, r)

\* c.write <- req; res.channel, res.Pending; c.writeWait.Done(); return res.
\* A send on a closed channel panics; on a full one it blocks.  The Done
\* that takes the counter to zero releases a Close parked in
\* c.writeWait.Wait().
SendEnqueue(h) ==
    /\ Running
    /\ sendPc[h] = "enqueue"
    /\ IF writeClosed
         THEN Crash("send on closed channel c.write")
         ELSE /\ Len(write) < QueueCap
              /\ write' = Enqueued(write, Request(reqId[h], h))
              /\ resPending' = [resPending EXCEPT ![h] = SendPending(want[h])]
              /\ writeWait' = writeWait - 1
              /\ sendPc' = [sendPc EXCEPT ![h] = "done"]
              /\ closePc' = IF closePc = "parked" /\ writeWait' = 0
                              THEN "woken" ELSE closePc
              /\ UNCHANGED <<connVars, tableVars, writeClosed, Notifications,
                             notifClosed, notificationWait, want, encodable,
                             reqId, chanClosed, afterClose, readVars,
                             readerVars, writerVars, Closed, closeCalls,
                             closeReturns, envVars, panic, boot>>

Send(h) ==
    \/ \E w \in BOOLEAN : \E x \in CallerIds : \E b \in BOOLEAN :
         SendCall(h, w, x, b)
    \/ SendLock(h)
    \/ SendRegister(h)
    \/ SendEnqueue(h)

\* Send by a caller whose Params json.Marshal accepts
SendPlain(h) ==
    \/ \E w \in BOOLEAN : \E x \in CallerIds : SendCall(h, w, x, TRUE)
    \/ SendLock(h)
    \/ SendRegister(h)
    \/ SendEnqueue(h)

\* ---- Response.Read (lines 130-154) ----
Timeouts == {0, 1}    \* Read(0) waits without limit, Read(1) for one second

\* Read calls made so far: those that returned and those still waiting
ReadCalls ==
    LET n[k \in 0..MaxSends] ==
          IF k = 0 THEN 0
          ELSE n[k - 1] + Len(reads[k]) + (IF readPc[k] = "waiting" THEN 1 ELSE 0)
    IN n[MaxSends]

\* The call.  Pending false: "No pending responses!"; a nil channel:
\* "Expected response channel, but got nil!".  A receive from a closed
\* channel yields nil at once, and res.unpack() dereferences it.
ReadCall(h, t) ==
    /\ Running
    /\ sendPc[h] = "done"
    /\ readPc[h] = "idle"
    /\ ReadCalls < MaxReads
    /\ IF resPending[h] /\ SendChannel(h) # NoChan /\ chanClosed[h]
         THEN Crash("nil pointer dereference in unpack")
         ELSE /\ IF ~resPending[h]
                   THEN /\ reads' = [reads EXCEPT ![h] = Append(@, NoPendingResponse)]
                        /\ UNCHANGED <<readPc, readTimeout>>
                   ELSE IF SendChannel(h) = NoChan
                   THEN /\ reads' = [reads EXCEPT ![h] = Append(@, NilChannel)]
                        /\ UNCHANGED <<readPc, readTimeout>>
                   ELSE /\ readPc' = [readPc EXCEPT ![h] = "waiting"]
                        /\ readTimeout' = [readTimeout EXCEPT ![h] = t]
                        /\ UNCHANGED reads
              /\ UNCHANGED <<connVars, tableVars, queueVars, waitVars, sendVars,
                             chanClosed, readerVars, writerVars, closeVars,
                             envVars, panic, boot>>

\* What Read leaves in the handle and the table when it returns: it closes
\* the channel (line 151); Pending and c.responses are not touched.
ReadRetire(h) ==
    /\ chanClosed' = [chanClosed EXCEPT ![h] = TRUE]
    /\ readPc' = [readPc EXCEPT ![h] = "idle"]
    /\ readTimeout' = [readTimeout EXCEPT ![h] = 0]
    /\ UNCHANGED <<resPending, responses>>

\* case <-time.After(timeout * time.Second)
ReadTimeout(h) ==
    /\ Running
    /\ readPc[h] = "waiting"
    /\ readTimeout[h] > 0
    /\ reads' = [reads EXCEPT ![h] = Append(@, ReadTimedOut)]
    /\ ReadRetire(h)
    /\ UNCHANGED <<connVars, requestId, lockHolder, queueVars, waitVars,
                   sendPc, want, encodable, reqId, afterClose, readerVars, writerVars,
                   closeVars, envVars, panic, boot>>

\* ---- Connection.connect (lines 244-263) ----
\* connect runs in the goroutine of the loop that called it and holds no
\* lock, so the other goroutines run between its statements.  A loop is
\* inside connect from the moment its pc is "dial"; it stays there for as
\* long as net.Dial fails (lines 249-254).  The connection that connect
\* replaces is not closed.
Loops == {"reader", "writer"}
LoopPc(p) == IF p = "reader" THEN rPc ELSE wPc
InConnect(p) == LoopPc(p) \in {"dial", "setEnc", "setDec"}

\* c.conn, err = net.Dial(...) fails (lines 248, 253): c.conn is nil for as
\* long as the loop of lines 249-254 turns, and the other goroutines see it.
\* A dial that fails is a failure of the network, counted with the events
\* from outside.
connectDialFails(p) ==
    /\ Running
    /\ LoopPc(p) = "dial"
    /\ events < MaxEvents
    /\ events' = events + 1
    /\ conn' = NilConn
    /\ UNCHANGED <<enc, dec, down, dials, tableVars, queueVars, waitVars,
                   sendVars, chanClosed, readVars, readerVars, writerVars,
                   closeVars, notifs, consumed, bursts, panic, boot>>

\* c.conn, err = net.Dial(...) succeeds (lines 248-255)
connectDial(p) ==
    /\ Running
    /\ LoopPc(p) = "dial"
    /\ dials < MaxDials
    /\ dials' = dials + 1
    /\ conn' = dials + 1
    /\ IF p = "reader"
         THEN rPc' = "setEnc" /\ UNCHANGED wPc
         ELSE wPc' = "setEnc" /\ UNCHANGED rPc
    /\ UNCHANGED <<enc, dec, down, tableVars, queueVars, waitVars, sendVars,
                   chanClosed, readVars, rMsg, rCh, rDec, decSwapped, wReq,
                   wEnc, wire, closeVars, envVars, panic, boot>>

\* c.enc = json.NewEncoder(c.conn) (line 257), on whatever c.conn holds
\* now: the other loop's connect may have replaced it, by nil too.
connectEncoder(p) ==
    /\ Running
    /\ LoopPc(p) = "setEnc"
    /\ enc' = conn
    /\ IF p = "reader"
         THEN rPc' = "setDec" /\ UNCHANGED wPc
         ELSE wPc' = "setDec" /\ UNCHANGED rPc
    /\ UNCHANGED <<conn, dec, down, dials, tableVars, queueVars, waitVars,
                   sendVars, chanClosed, readVars, rMsg, rCh, rDec,
                   decSwapped, wReq, wEnc, wire, closeVars, envVars, panic,
                   boot>>

\* The top of the reader's loop: res := new(rpcResponse), and
\* c.dec.Decode(res) starts on the decoder d that c.dec holds.  It is also
\* where the reader is when its connect has returned: res is empty, so the
\* last branch (lines 313-319) logs it.
ReaderLoop(d) ==
    /\ rPc' = "decode"
    /\ rMsg' = EmptyMessage
    /\ rCh' = NoChan
    /\ rDec' = d
    /\ decSwapped' = FALSE

\* c.dec = json.NewDecoder(c.conn); return (lines 258-262).  The reader goes
\* on to its next Decode, the writer to its second Encode.  The decoder is a
\* new one, also when c.conn is the connection the old one was made on.
connectDecoder(p) ==
    /\ Running
    /\ LoopPc(p) = "setDec"
    /\ dec' = conn
    /\ IF p = "reader"
         THEN ReaderLoop(dec') /\ UNCHANGED <<wPc, wEnc>>
         ELSE /\ wPc' = "retry" /\ wEnc' = enc
              /\ decSwapped' = TRUE
              /\ UNCHANGED <<rPc, rMsg, rCh, rDec>>
    /\ UNCHANGED <<conn, enc, down, dials, tableVars, queueVars, waitVars,
                   sendVars, chanClosed, readVars, wReq, wire, closeVars,
                   envVars, panic, boot>>

connect(p) ==
    \/ connectDialFails(p)
    \/ connectDial(p)
    \/ connectEncoder(p)
    \/ connectDecoder(p)

\* The transport of dial k carries data: there is one (an encoder or decoder
\* made on a nil c.conn has none) and it is neither closed nor broken.
Up(k) == k # NilConn /\ k \notin down

\* ---- Connection.reader (lines 283-321) ----
Fatal == -2    \* the runtime's "concurrent map read and map write"

\* c.responses[k]: the channel registered under k, or nil
Lookup(k) == IF k \in DOMAIN responses THEN responses[k] ELSE NoChan

\* The reader reads c.responses without c.responseLock.  A lookup made while a
\* Send is inside its locked section races with the map write: it yields the
\* entry, or nil, or the runtime ends the process.
LookupOutcomes(k) ==
    {Lookup(k)} \cup (IF lockHolder # NoHolder THEN {NoChan, Fatal} ELSE {})

\* Decode returns a message with an Id: the response branch (lines 303-312).
ReaderResponse(m) ==
    /\ Running
    /\ rPc = "decode"
    /\ Classify(m) = "response"
    /\ Up(rDec)
    /\ events < MaxEvents
    /\ \E ch \in LookupOutcomes(ToUint32(m.id2)) :
         IF ch = Fatal
           THEN Crash("concurrent map read and map write")
           ELSE /\ events' = events + 1
                /\ IF ch = NoChan
                     THEN ReaderLoop(dec)
                     ELSE /\ rPc' = "deliver"
                          /\ rMsg' = m
                          /\ rCh' = ch
                          /\ UNCHANGED <<rDec, decSwapped>>
                /\ UNCHANGED <<connVars, tableVars, queueVars, waitVars,
                               sendVars, chanClosed, readVars, writerVars,
                               closeVars, notifs, consumed, bursts, panic, boot>>

\* *ch <- res on an unbuffered channel: it completes together with the
\* receive in Read, which then unpacks the response and closes the channel.
ReaderDeliver ==
    /\ Running
    /\ rPc = "deliver"
    /\ rCh \in Handles
    /\ readPc[rCh] = "waiting"
    /\ ~chanClosed[rCh]
    /\ reads' = [reads EXCEPT ![rCh] = Append(@, unpack(rMsg))]
    /\ ReadRetire(rCh)
    /\ ReaderLoop(dec)
    /\ UNCHANGED <<connVars, requestId, lockHolder, queueVars, waitVars,
                   sendPc, want, encodable, reqId, afterClose, writerVars, closeVars,
                   envVars, panic, boot>>

\* *ch <- res on a channel that Read has closed
ReaderDeliverClosed ==
    /\ Running
    /\ rPc = "deliver"
    /\ chanClosed[rCh]
    /\ Crash("send on closed response channel")

\* Decode returns a message with a Method and no Id (lines 295-297):
\* c.notificationWait.Add(1).  Notifications are numbered as they arrive.
NotificationDecoded ==
    /\ Running
    /\ rPc = "decode"
    /\ Classify(Message(NoId, TRUE, "empty")) = "notification"
    /\ Up(rDec)
    /\ notifs' = notifs + 1
    /\ notificationWait' = notificationWait + 1
    /\ rPc' = "notify"
    /\ rMsg' = Message(NoId, TRUE, "empty")
    /\ UNCHANGED <<connVars, tableVars, queueVars, writeWait, sendVars,
                   chanClosed, readVars, rCh, rDec, decSwapped, writerVars,
                   closeVars, consumed, bursts, panic, boot>>

ReaderNotification ==
    /\ events < MaxEvents
    /\ events' = events + 1
    /\ NotificationDecoded

\* c.Notifications <- n; c.notificationWait.Done() (lines 301-302)
ReaderNotify ==
    /\ Running
    /\ rPc = "notify"
    /\ IF notifClosed
         THEN Crash("send on closed channel c.Notifications")
         ELSE /\ Len(Notifications) < QueueCap
              /\ Notifications' = Append(Notifications, notifs)
              /\ notificationWait' = notificationWait - 1
              /\ ReaderLoop(dec)
              /\ UNCHANGED <<connVars, tableVars, write, writeClosed,
                             notifClosed, writeWait, sendVars, chanClosed,
                             readVars, writerVars, closeVars, envVars, panic, boot>>

\* Decode returns a message with neither Id nor Method (lines 313-319), or
\* fails on a value that does not fit rpcResponse (lines 291-293): logged,
\* next iteration.
ReaderDiscard ==
    /\ Running
    /\ rPc = "decode"
    /\ Classify(EmptyMessage) = "unparseable"
    /\ Up(rDec)
    /\ events < MaxEvents
    /\ events' = events + 1
    /\ ReaderLoop(dec)
    /\ UNCHANGED <<connVars, tableVars, queueVars, waitVars, sendVars,
                   chanClosed, readVars, writerVars, closeVars, notifs,
                   consumed, bursts, panic, boot>>

\* The errors Decode returns: end of stream, an error of the network, text
\* that is not JSON, JSON that does not fit rpcResponse.
DecodeErrors == {"EOF", "net", "syntax", "type"}
Malformed == {"syntax", "type"}

\* _, ok := err.(net.Error); err == io.EOF || ok (line 287)
Reconnects(e) == e \in {"EOF", "net"}

\* Decode on a transport that is not up (line 286).  On a closed or broken
\* one it fails with io.EOF or a net.Error (lines 287-290): c.connect().  A
\* decoder made on a nil c.conn calls Read on the nil interface: the
\* goroutine panics.
ReaderDecodeError ==
    /\ Running
    /\ rPc = "decode"
    /\ ~Up(rDec)
    /\ IF rDec = NilConn
         THEN Crash("nil pointer dereference in Decode")
         ELSE /\ \E e \in DecodeErrors \ Malformed : Reconnects(e)
              /\ rPc' = "dial"
              /\ UNCHANGED <<connVars, tableVars, queueVars, waitVars,
                             sendVars, chanClosed, readVars, rMsg, rCh, rDec,
                             decSwapped, writerVars, closeVars, envVars,
                             panic, boot>>

\* Decode fails on a payload e \in Malformed (lines 286-294).  The decoder
\* keeps an error of syntax and returns it from every later call, so the
\* loop turns on that error for as long as c.dec is this decoder; after an
\* error of type the next call reads the next value.
ReaderMalformed(e) ==
    /\ Running
    /\ rPc = "decode"
    /\ Up(rDec)
    /\ events < MaxEvents
    /\ events' = events + 1
    /\ IF Reconnects(e)
         THEN /\ rPc' = "dial"
              /\ UNCHANGED <<rMsg, rCh, rDec, decSwapped>>
         ELSE IF e = "syntax"
         THEN /\ rPc' = "garbled"
              /\ UNCHANGED <<rMsg, rCh, rDec, decSwapped>>
         ELSE ReaderLoop(dec)
    /\ UNCHANGED <<connVars, tableVars, queueVars, waitVars, sendVars,
                   chanClosed, readVars, writerVars, closeVars, notifs,
                   consumed, bursts, panic, boot>>

\* The writer's connect has assigned c.dec: the next iteration decodes on
\* the new decoder, which has no error kept.
ReaderResume ==
    /\ Running
    /\ rPc = "garbled"
    /\ decSwapped
    /\ ReaderLoop(dec)
    /\ UNCHANGED <<connVars, tableVars, queueVars, waitVars, sendVars,
                   chanClosed, readVars, writerVars, closeVars, envVars,
                   panic, boot>>

reader ==
    \/ \E m \in PeerResponses : ReaderResponse(m)
    \/ ReaderDeliver
    \/ ReaderDeliverClosed
    \/ ReaderNotification
    \/ ReaderNotify
    \/ ReaderDiscard
    \/ ReaderDecodeError
    \/ connect("reader")

\* ---- Connection.writer (lines 266-280) ----
\* The record of what Encode wrote, with the dial it was written on.  A run
\* of nulls (the zero values the writer reads from the closed c.write) is
\* recorded once.
Encoded(w, r, k) ==
    IF r = NullRequest /\ w # <<>> /\ w[Len(w)] = Written(NullRequest, k)
      THEN w
      ELSE Append(w, Written(r, k))

\* The top of the loop: var req interface{}
WriterLoop ==
    /\ wPc' = "recv"
    /\ wReq' = NullRequest
    /\ wEnc' = NoEnc

\* What req = <-c.write yields: the next queued request, or the zero value
\* at once when the channel is closed and drained.
Received == IF write # <<>> THEN Head(write) ELSE NullRequest

\* req = <-c.write (line 269), and c.enc.Encode(req) starts on the encoder
\* that c.enc holds.  Encode returns when the transport has taken the bytes.
WriterReceive ==
    /\ Running
    /\ wPc = "recv"
    /\ write # <<>> \/ writeClosed
    /\ write' = IF write # <<>> THEN Tail(write) ELSE write
    /\ wReq' = Received
    /\ wEnc' = enc
    /\ wPc' = "encode"
    /\ UNCHANGED <<connVars, tableVars, writeClosed, Notifications,
                   notifClosed, waitVars, sendVars, chanClosed, readVars,
                   readerVars, wire, closeVars, envVars, panic, boot>>

\* json.Marshal accepts r: the zero value read from the closed queue is
\* written as null; a request is accepted when its Params are.
Marshals(r) == r.h \notin Callers \/ encodable[r.h]

\* What c.enc.Encode(r) does on the encoder of dial k: it marshals r first
\* and returns the *json.UnsupportedTypeError without touching the
\* transport; it then calls Write, on a nil interface when the encoder was
\* made on a nil c.conn (the goroutine panics), with a net.Error when the
\* transport is closed or broken.
EncodeOutcome(k, r) ==
    IF ~Marshals(r) THEN "unsupported"
    ELSE IF k = NilConn THEN "nil"
    ELSE IF k \in down THEN "net"
    ELSE "written"

\* err := c.enc.Encode(req) returns (line 270): written, or an error that
\* sends the writer to c.connect(): a net.Error (lines 271-273), and any
\* other error as well (lines 274-277), with the transport up or not.
WriterEncode ==
    /\ Running
    /\ wPc = "encode"
    /\ IF EncodeOutcome(wEnc, wReq) = "nil"
         THEN Crash("nil pointer dereference in Encode")
         ELSE /\ IF EncodeOutcome(wEnc, wReq) = "written"
                   THEN /\ wire' = Encoded(wire, wReq, wEnc)
                        /\ WriterLoop
                   ELSE /\ wPc' = "dial"
                        /\ UNCHANGED <<wReq, wEnc, wire>>
              /\ UNCHANGED <<connVars, tableVars, queueVars, waitVars,
                             sendVars, chanClosed, readVars, readerVars,
                             closeVars, envVars, panic, boot>>

\* c.enc.Encode(req) after connect (lines 273, 277) returns: its error is
\* dropped, and with it the request
WriterRetry ==
    /\ Running
    /\ wPc = "retry"
    /\ IF EncodeOutcome(wEnc, wReq) = "nil"
         THEN Crash("nil pointer dereference in Encode")
         ELSE /\ wire' = IF EncodeOutcome(wEnc, wReq) = "written"
                           THEN Encoded(wire, wReq, wEnc) ELSE wire
              /\ WriterLoop
              /\ UNCHANGED <<connVars, tableVars, queueVars, waitVars,
                             sendVars, chanClosed, readVars, readerVars,
                             closeVars, envVars, panic, boot>>

writer ==
    \/ WriterReceive
    \/ WriterEncode
    \/ connect("writer")
    \/ WriterRetry

\* ---- Connection.Close (lines 324-343) ----
\* New returns the Connection by value (lines 110-114): the Connection the
\* callers hold is a copy, made when init has returned, of the one that the
\* reader and writer goroutines run on.  Both share the channels, the
\* response table and the first transport; the copy has its own Closed flag,
\* lock, identifier counter and wait groups.  Send and Close work on the
\* copy, so Closed, lockHolder, requestId and writeWait are the copy's;
\* conn, enc, dec and notificationWait are those of the goroutines.
\* c.conn of the copy: the connection that init dialled.
CallerConn == 0
\* c.notificationWait of the copy: what New copied; the reader never adds
\* to it nor takes from it.
CallerNotificationWait == boot.wait

\* (mutant) Close without its guard
AlreadyClosed_Unchecked == FALSE

\* if c.Closed
AlreadyClosed == Closed

\* if c.Closed { return }; c.Closed = true
CloseCall ==
    /\ Running
    /\ closePc = "idle"
    /\ closeCalls < MaxCloses
    /\ closeCalls' = closeCalls + 1
    /\ IF AlreadyClosed
         THEN /\ closeReturns' = closeReturns + 1
              /\ UNCHANGED <<Closed, closePc>>
         ELSE /\ Closed' = TRUE
              /\ closePc' = "waitWrite"
              /\ UNCHANGED closeReturns
    /\ UNCHANGED <<connVars, tableVars, queueVars, waitVars, sendVars,
                   chanClosed, readVars, readerVars, writerVars, envVars,
                   panic, boot>>

\* c.writeWait.Wait() finds the counter above zero (line 331) and parks:
\* only the Done that takes the counter to zero releases it.
CloseWait ==
    /\ Running
    /\ closePc = "waitWrite"
    /\ writeWait > 0
    /\ closePc' = "parked"
    /\ UNCHANGED <<connVars, tableVars, queueVars, waitVars, sendVars,
                   chanClosed, readVars, readerVars, writerVars, Closed,
                   closeCalls, closeReturns, envVars, panic, boot>>

\* What a released Wait does when a Send has called Add(1) since the
\* release: it panics with "sync: WaitGroup is reused before previous Wait
\* has returned" (Go 1.5 and later), or returns (before Go 1.5).  In no
\* build does it wait for that Send.
WaitReused == {"panic", "return"}

\* c.writeWait.Wait() returns, at once on a counter of zero or when a Done
\* has released it; close(c.write) (lines 331-332)
CloseWrite ==
    /\ Running
    /\ \/ closePc = "waitWrite" /\ writeWait = 0
       \/ closePc = "woken"
    /\ \E o \in WaitReused :
         IF closePc = "woken" /\ writeWait > 0 /\ o = "panic"
           THEN Crash("WaitGroup is reused before previous Wait has returned")
           ELSE IF writeClosed
           THEN Crash("close of closed channel c.write")
           ELSE /\ writeClosed' = TRUE
                /\ closePc' = "waitNotif"
                /\ UNCHANGED <<connVars, tableVars, write, Notifications,
                               notifClosed, waitVars, sendVars, chanClosed,
                               readVars, readerVars, writerVars, Closed,
                               closeCalls, closeReturns, envVars, panic, boot>>

\* c.notificationWait.Wait(); close(c.Notifications); c.conn.Close(); return
CloseNotifications ==
    /\ Running
    /\ closePc = "waitNotif"
    /\ CallerNotificationWait = 0
    /\ IF notifClosed
         THEN Crash("close of closed channel c.Notifications")
         ELSE /\ notifClosed' = TRUE
              /\ down' = down \cup {CallerConn}
              /\ closePc' = "idle"
              /\ closeReturns' = closeReturns + 1
              /\ UNCHANGED <<conn, enc, dec, dials, tableVars, write,
                             writeClosed, Notifications, waitVars, sendVars,
                             chanClosed, readVars, readerVars, writerVars,
                             Closed, closeCalls, envVars, panic, boot>>

Close ==
    \/ CloseCall
    \/ CloseWait
    \/ CloseWrite
    \/ CloseNotifications

\* ---- the environment ----
\* The application takes a notification from c.Notifications.
Consumed ==
    /\ Running
    /\ Notifications # <<>>
    /\ Notifications' = Tail(Notifications)
    /\ consumed' = consumed + 1
    /\ UNCHANGED <<connVars, tableVars, write, writeClosed, notifClosed,
                   waitVars, sendVars, chanClosed, readVars, readerVars,
                   writerVars, closeVars, notifs, bursts, panic, boot>>

Consume ==
    /\ events < MaxEvents
    /\ events' = events + 1
    /\ Consumed

\* The network drops a connection: the one c.conn names, or an earlier one
\* that a loop still encodes to or decodes from (connect closes none).
Break ==
    /\ Running
    /\ events < MaxEvents
    /\ \E k \in 0..dials : Up(k) /\ down' = down \cup {k}
    /\ events' = events + 1
    /\ UNCHANGED <<conn, enc, dec, dials, tableVars, queueVars, waitVars,
                   sendVars, chanClosed, readVars, readerVars, writerVars,
                   closeVars, notifs, consumed, bursts, panic, boot>>

Read(h) ==
    \/ \E t \in Timeouts : ReadCall(h, t)
    \/ ReadTimeout(h)

\* The callers that send and read, the two loops, the peer, the application
\* and a transport that fails.  Close, and requests that cannot be
\* marshalled, are followed in the specifications below.
Next ==
    \/ \E h \in Handles : SendPlain(h)
    \/ \E h \in Handles : Read(h)
    \/ reader
    \/ writer
    \/ Consume
    \/ Break

Spec == Init /\ [][Next]_vars

\* ---- one caller, the loops and Close ----
\* The peer sends a notification; the flood is not counted against the
\* budget of outside events.
FloodNotification ==
    /\ notifs < MaxFlood
    /\ NotificationDecoded
    /\ UNCHANGED <<events, bursts>>

\* The application takes at most MaxConsumed notifications, then stops
\* draining c.Notifications.
FloodConsume ==
    /\ consumed < MaxConsumed
    /\ Consumed
    /\ UNCHANGED <<events, bursts>>

FairNext ==
    \/ Send(1)
    \/ Read(1)
    \/ reader
    \/ writer
    \/ Close
    \/ Consume

\* The goroutines and the timer of a started call keep running: every step
\* of the program that stays possible is taken.  Nothing obliges a caller to
\* call Send, Read or Close, the peer to send, or the application to take
\* notifications.
Fairness ==
    /\ WF_vars(SendLock(1))
    /\ WF_vars(SendRegister(1))
    /\ WF_vars(SendEnqueue(1))
    /\ WF_vars(ReadTimeout(1))
    /\ WF_vars(ReaderDeliver)
    /\ WF_vars(ReaderDeliverClosed)
    /\ WF_vars(ReaderNotify)
    /\ WF_vars(ReaderDecodeError)
    /\ WF_vars(connect("reader"))
    /\ WF_vars(writer)
    /\ WF_vars(CloseWait)
    /\ WF_vars(CloseWrite)
    /\ WF_vars(CloseNotifications)

FairSpec == Init /\ [][FairNext]_vars /\ Fairness

\* ---- a burst of requests, a writer that may stall, and Close ----

\* The burst caller makes its Send calls one after the other, with no
\* identifier on the request and with Params that can be marshalled.
BurstCall(w) ==
    /\ bursts < MaxBurst
    /\ SendCall(BurstCaller, w, NoId, TRUE)

\* return res (line 236): the call is over, the caller is free for the next
BurstReturn ==
    /\ Running
    /\ sendPc[BurstCaller] = "done"
    /\ sendPc' = [sendPc EXCEPT ![BurstCaller] = "idle"]
    /\ bursts' = bursts + 1
    /\ UNCHANGED <<connVars, tableVars, queueVars, waitVars, want, encodable, reqId,
                   resPending, afterClose, chanClosed, readVars, readerVars,
                   writerVars, closeVars, events, notifs, consumed, panic,
                   boot>>

\* Send(req, false) by the burst caller (lines 212-215, 229-236)
BurstSend ==
    \/ BurstCall(FALSE)
    \/ SendEnqueue(BurstCaller)
    \/ BurstReturn

StallNext ==
    \/ BurstSend
    \/ WriterReceive
    \/ WriterEncode
    \/ ReaderNotify
    \/ Close

\* Encode returns when the peer has taken the bytes: nothing obliges the
\* writer to get past it.  The steps of Send, of the writer and of Close
\* that wait for nothing but the program are taken.
StallFairness ==
    /\ WF_vars(SendEnqueue(BurstCaller))
    /\ WF_vars(BurstReturn)
    /\ WF_vars(WriterReceive)
    /\ WF_vars(ReaderNotify)
    /\ WF_vars(CloseWait)
    /\ WF_vars(CloseWrite)
    /\ WF_vars(CloseNotifications)

StallSpec == Init /\ [][StallNext]_vars /\ StallFairness

\* ---- New: the dial, the version query and its check ----
\* Before New: no transport, no goroutine, nothing registered or written.
BootInit ==
    /\ \E t \in BootTimeouts : boot = Boot("dial", t, 0, NoResponse, "", 0)
    /\ Closed = FALSE
    /\ write = <<>> /\ writeClosed = FALSE
    /\ Notifications = <<>> /\ notifClosed = FALSE
    /\ writeWait = 0 /\ notificationWait = 0
    /\ requestId = 0
    /\ responses = <<>>
    /\ lockHolder = NoHolder
    /\ conn = NilConn /\ enc = NilConn /\ dec = NilConn
    /\ down = {}
    /\ dials = 0
    /\ sendPc = [h \in Callers |-> "idle"]
    /\ want = [h \in Callers |-> FALSE]
    /\ encodable = [h \in Callers |-> TRUE]
    /\ reqId = [h \in Callers |-> NoId]
    /\ resPending = [h \in Callers |-> FALSE]
    /\ chanClosed = [h \in Callers |-> FALSE]
    /\ afterClose = [h \in Callers |-> FALSE]
    /\ readPc = [h \in Handles |-> "idle"]
    /\ readTimeout = [h \in Handles |-> 0]
    /\ reads = [h \in Handles |-> <<>>]
    /\ rPc = "unborn" /\ rMsg = EmptyMessage /\ rCh = NoChan /\ rDec = NilConn
    /\ decSwapped = FALSE
    /\ wPc = "unborn" /\ wReq = NullRequest /\ wEnc = NoEnc
    /\ wire = <<>>
    /\ closePc = "idle" /\ closeCalls = 0 /\ closeReturns = 0
    /\ events = 0 /\ notifs = 0 /\ consumed = 0 /\ bursts = 0
    /\ panic = "none"

\* connect, called by init (line 180): net.Dial fails and leaves c.conn
\* nil, the error is logged, a second is slept and the dial is made again
\* (lines 249-254).  c.timeout is not read.
BootDialFails ==
    /\ boot.pc = "dial"
    /\ boot.attempts < MaxAttempts
    /\ boot' = [boot EXCEPT !.attempts = @ + 1]
    /\ conn' = NilConn
    /\ UNCHANGED <<enc, dec, down, dials, tableVars, queueVars, waitVars,
                   sendVars, chanClosed, readVars, readerVars, writerVars,
                   closeVars, envVars, panic>>

\* net.Dial succeeds and connect makes the encoder and the decoder; init
\* makes the channels and the table, starts reader and writer, and calls
\* Send with JSONRPC.Version (no Params), which does c.writeWait.Add(1)
\* (lines 180-192, 212-215, 255-258).
BootDialOk ==
    /\ boot.pc = "dial"
    /\ boot' = [boot EXCEPT !.pc = "query"]
    /\ conn' = 0 /\ enc' = 0 /\ dec' = 0
    /\ rPc' = "decode" /\ rDec' = dec' /\ decSwapped' = FALSE
    /\ wPc' = "recv"
    /\ sendPc' = [sendPc EXCEPT ![InitHandle] = "lock"]
    /\ want' = [want EXCEPT ![InitHandle] = TRUE]
    /\ encodable' = [encodable EXCEPT ![InitHandle] = TRUE]
    /\ writeWait' = writeWait + 1
    /\ UNCHANGED <<down, dials, tableVars, queueVars, notificationWait, reqId,
                   resPending, afterClose, chanClosed, readVars, rMsg, rCh,
                   wReq, wEnc, wire, closeVars, envVars, panic>>

\* (mutant) the minimum version itself is refused
TooLow_Inclusive(m2) == m2 <= 2 * KODI_MIN_VERSION

\* version[`major`].(float64) < KODI_MIN_VERSION (line 200), in halves
TooLow(m2) == m2 < 2 * KODI_MIN_VERSION

InterfaceConversion == "panic: interface conversion"

\* What init does with the response its Read received (lines 194-205): the
\* error that Read returned; a panic of the unchecked type assertions at
\* lines 199 and 200 when "version" or "major" is not there; the
\* version error; or nil.
initError(r) ==
    IF r.kind = "error" THEN "Kodi error"
    ELSE IF r.kind \in {"empty", "noversion", "nomajor"} THEN InterfaceConversion
    ELSE IF TooLow(r.major2) THEN "Kodi version too low, upgrade to Frodo or later"
    ELSE ""

\* init's Send has returned and init is in rchan.Read(c.timeout) (line 194).
BootReading == boot.pc = "query" /\ sendPc[InitHandle] = "done"

\* The rpcResponse that carries the answer r to JSONRPC.Version: the
\* identifier of init's request, and r as its payload.
VersionMessage(r) ==
    [id2 |-> 2 * reqId[InitHandle], method |-> FALSE,
     body |-> IF r.kind \in {"error", "empty"} THEN r.kind ELSE "result",
     code |-> 0, message |-> "", kind |-> r.kind, major2 |-> r.major2]

\* The payload of a decoded answer to JSONRPC.Version
VersionOf(m) == [kind |-> m.kind, major2 |-> m.major2]

\* The peer has the version query and answers it, once, sooner or later;
\* the reader decodes the answer and looks up its channel (lines 286,
\* 303-306).
BootAnswer(r) ==
    /\ boot.pc \in {"query", "returning", "returned"}
    /\ boot.response = NoResponse
    /\ \E k \in 1..Len(wire) : wire[k].h = InitHandle
    /\ ReaderResponse(VersionMessage(r))

\* *ch <- res (line 308) meets the receive of init's Read (line 141 or
\* 144): Read unpacks the response and closes the channel (lines 147-151),
\* init checks the version (lines 195-205), and the reader goes on to its
\* next Decode.
BootDeliver ==
    /\ Running
    /\ BootReading
    /\ rPc = "deliver"
    /\ rCh = InitHandle
    /\ ~chanClosed[InitHandle]
    /\ chanClosed' = [chanClosed EXCEPT ![InitHandle] = TRUE]
    /\ ReaderLoop(dec)
    /\ LET r == VersionOf(rMsg) IN
         IF initError(r) = InterfaceConversion
           THEN /\ boot' = [boot EXCEPT !.pc = "panicked", !.response = r]
                /\ panic' = InterfaceConversion
           ELSE /\ boot' = [boot EXCEPT !.pc = "returning", !.response = r,
                                        !.err = initError(r)]
                /\ UNCHANGED panic
    /\ UNCHANGED <<connVars, tableVars, queueVars, waitVars, sendVars,
                   readVars, writerVars, closeVars, envVars>>

\* (mutant) the timer runs whatever the timeout
TimerSet_Always(t) == TRUE

\* if timeout > 0 (line 138): Read waits with a timer
TimerSet(t) == t > 0

\* No response within c.timeout seconds: init's Read returns its timeout
\* error (lines 141-143) and closes the channel, and init returns the error.
\* The timer runs whatever the reader does: it may fire while the reader
\* holds the answer, before the hand-over.
BootTimeout ==
    /\ Running
    /\ BootReading
    /\ TimerSet(boot.timeout)
    /\ chanClosed' = [chanClosed EXCEPT ![InitHandle] = TRUE]
    /\ boot' = [boot EXCEPT !.pc = "returning", !.err = ReadTimedOut.err]
    /\ UNCHANGED <<connVars, tableVars, queueVars, waitVars, sendVars,
                   readVars, readerVars, writerVars, closeVars, envVars,
                   panic>>

\* return conn, err (line 114): the Connection is copied as it is now, while
\* the reader goes on working on the original.
BootReturn ==
    /\ Running
    /\ boot.pc = "returning"
    /\ boot' = [boot EXCEPT !.pc = "returned", !.wait = notificationWait]
    /\ UNCHANGED <<connVars, tableVars, queueVars, waitVars, sendVars,
                   chanClosed, readVars, readerVars, writerVars, closeVars,
                   envVars, panic>>

\* The peer sends a notification during the handshake.
BootNotification ==
    /\ boot.pc \in {"query", "returning"}
    /\ ReaderNotification

\* The network drops the connection during the handshake.
BootBreak ==
    /\ boot.pc \in {"query", "returning"}
    /\ Break

BootNext ==
    \/ BootDialFails
    \/ BootDialOk
    \/ SendLock(InitHandle)
    \/ SendRegister(InitHandle)
    \/ SendEnqueue(InitHandle)
    \/ writer
    \/ \E r \in BootResponses : BootAnswer(r)
    \/ BootDeliver
    \/ ReaderDeliverClosed
    \/ BootTimeout
    \/ BootReturn
    \/ BootNotification
    \/ ReaderNotify
    \/ BootBreak
    \/ ReaderDecodeError
    \/ connect("reader")

BootSpec == BootInit /\ [][BootNext]_vars

\* ---- the write path: callers that send, the writer, a failing transport ----
WriteNext ==
    \/ \E h \in Handles : Send(h)
    \/ writer
    \/ Break
    \/ ReaderNotify
    \/ ReaderDecodeError
    \/ connect("reader")

\* The goroutines keep running.  Nothing obliges a caller to call Send, nor
\* the transport to fail.
WriteFairness ==
    /\ \A h \in Handles :
         /\ WF_vars(SendLock(h))
         /\ WF_vars(SendRegister(h))
         /\ WF_vars(SendEnqueue(h))
    /\ WF_vars(writer)
    /\ WF_vars(ReaderNotify)
    /\ WF_vars(ReaderDecodeError)
    /\ WF_vars(connect("reader"))

WriteSpec == Init /\ [][WriteNext]_vars /\ WriteFairness

\* ---- Close among callers that send and the loops ----
\* The transport goes down when Close closes it.
CloseNext ==
    \/ \E h \in Handles : Send(h)
    \/ writer
    \/ ReaderNotify
    \/ ReaderDecodeError
    \/ connect("reader")
    \/ Close

CloseSpec == Init /\ [][CloseNext]_vars

\* ---- one caller, a peer that answers it and floods notifications ----
\* h's request has been encoded to the transport.
OnWire(h) == \E k \in 1..Len(wire) : wire[k].h = h

\* The peer sends the result of caller 1's request, and the reader decodes
\* it (lines 286, 303-312).
PeerAnswer ==
    /\ want[1]
    /\ sendPc[1] \in {"enqueue", "done"}
    /\ OnWire(1)
    /\ ReaderResponse(Message(2 * reqId[1], FALSE, "result"))

\* The peer answers a request once.
PeerAnswerOnce ==
    /\ events = 0
    /\ PeerAnswer

AnswerNext ==
    \/ SendPlain(1)
    \/ Read(1)
    \/ WriterReceive
    \/ WriterEncode
    \/ PeerAnswerOnce
    \/ ReaderDeliver
    \/ ReaderDeliverClosed
    \/ FloodNotification
    \/ ReaderNotify
    \/ FloodConsume

\* The goroutines keep running, the transport stays up, and the peer answers
\* the request it has received, once, when the reader is there to decode the
\* answer.  Nothing obliges the application to take notifications.
AnswerFairness ==
    /\ WF_vars(SendLock(1))
    /\ WF_vars(SendRegister(1))
    /\ WF_vars(SendEnqueue(1))
    /\ WF_vars(ReadTimeout(1))
    /\ WF_vars(WriterReceive)
    /\ WF_vars(WriterEncode)
    /\ WF_vars(PeerAnswerOnce)
    /\ WF_vars(ReaderDeliver)
    /\ WF_vars(ReaderDeliverClosed)
    /\ WF_vars(ReaderNotify)

AnswerSpec == Init /\ [][AnswerNext]_vars /\ AnswerFairness

\* ---- a caller that does not read, and many requests after its own ----
\* Send(req, true) by the burst caller (lines 212-228, 234-236)
BurstRequest ==
    \/ BurstCall(TRUE)
    \/ SendLock(BurstCaller)
    \/ SendRegister(BurstCaller)
    \/ SendEnqueue(BurstCaller)
    \/ BurstReturn

WrapNext ==
    \/ SendPlain(1)
    \/ BurstRequest
    \/ WriterReceive
    \/ WriterEncode
    \/ ReaderNotify

WrapSpec == Init /\ [][WrapNext]_vars

SwapNext ==
    \/ \E h \in Handles : Send(h)
    \/ WriterReceive
    \/ WriterEncode
    \/ WriterRetry
    \/ Break
    \/ ReaderNotify
    \/ ReaderDiscard
    \/ ReaderDecodeError
    \/ \E p \in Loops : connectDialFails(p)
    \/ \E p \in Loops : connectDial(p)
    \/ \E p \in Loops : connectEncoder(p)
    \/ \E p \in Loops : connectDecoder(p)

SwapSpec == Init /\ [][SwapNext]_vars

\* ---- a peer that sends malformed payloads ----
GarbleNext ==
    \/ Send(1)
    \/ Read(1)
    \/ writer
    \/ Break
    \/ PeerAnswer
    \/ ReaderDeliver
    \/ ReaderDeliverClosed
    \/ FloodNotification
    \/ ReaderNotify
    \/ \E e \in Malformed : ReaderMalformed(e)
    \/ ReaderResume
    \/ ReaderDecodeError
    \/ connect("reader")

GarbleSpec == Init /\ [][GarbleNext]_vars

TypeOK ==
    /\ Closed \in BOOLEAN
    /\ Len(write) <= QueueCap
    /\ Len(Notifications) <= QueueCap
    /\ writeWait \in 0..(MaxSends + 1)
    /\ notificationWait \in 0..1
    /\ requestId \in 0..(IdModulus - 1)
    /\ lockHolder \in Callers \cup {NoHolder}
    /\ rPc \in {"decode", "deliver", "notify", "dial", "setEnc", "setDec",
               "garbled", "dead", "unborn"}
    /\ wPc \in {"recv", "encode", "dial", "setEnc", "setDec", "retry", "dead",
               "unborn"}
    /\ closePc \in {"idle", "waitWrite", "parked", "woken", "waitNotif", "dead"}

\* ======================= properties =======================
\* Send has taken an identifier for h (line 218).
Assigned(h) == want[h] /\ sendPc[h] \in {"register", "enqueue", "done"}
\* h's slot is in c.responses (line 220 has run).
Registered(h) == want[h] /\ sendPc[h] \in {"enqueue", "done"}
\* A Read on h has returned.
ReadReturned(h) == reads[h] # <<>>
\* h is pending: registered, and no Read on it has returned yet.
Live(h) == Registered(h) /\ ~ReadReturned(h)

\* The writer holds h's request: received from c.write and not yet written,
\* in its first Encode, inside connect, or in its retry.
InHand(h) ==
    /\ wPc \in {"encode", "dial", "setEnc", "setDec", "retry"}
    /\ wReq.h = h

\* C1 as claimed: every identifier Send assigns differs from the identifier
\* of every other pending request, and each pending request's identifier is
\* the table key of its own channel: no two live handles share a table key.
C1_UniqueIds ==
    /\ \A h \in Handles : \A g \in Handles \ {h} :
         Assigned(h) /\ Live(g) => reqId[h] # reqId[g]
    /\ \A h \in Handles :
         Live(h) => reqId[h] \in DOMAIN responses /\ responses[reqId[h]] = h

\* C2 as claimed: whatever a Read on a handle received, it is the payload of
\* a response that carries the identifier Send assigned to that handle.
C2_ReadMatchesId ==
    \A h \in Handles : \A k \in 1..Len(reads[h]) :
        reads[h][k].from # NoId => reads[h][k].from = 2 * reqId[h]

\* C3 as claimed: the first Read leaves Pending false, and a second Read on
\* the handle fails with "No pending responses!".
C3_SecondReadFails ==
    /\ \A h \in Handles :
         /\ ReadReturned(h) /\ readPc[h] = "idle" => ~resPending[h]
         /\ Len(reads[h]) >= 2 => reads[h][2] = NoPendingResponse
    /\ panic # "nil pointer dereference in unpack"

\* h's request is on the outbound queue.
Queued(h) == \E k \in 1..Len(write) : write[k].h = h

\* C4 as claimed: a Send called after Close registers no slot, queues
\* nothing, and returns an error instead of a Response.
C4_SendAfterCloseFails ==
    /\ \A h \in Handles :
         afterClose[h] =>
           /\ h \notin Range(responses)
           /\ ~Queued(h)
           /\ sendPc[h] # "done"
    /\ panic # "send on closed channel c.write"

\* C5: a Close called after Close has set c.Closed returns at once and
\* changes neither the flag, nor the queues, nor the transport.
C5_CloseIdempotent ==
    [][(Closed /\ closeCalls' = closeCalls + 1) =>
         /\ UNCHANGED <<Closed, write, writeClosed, Notifications, notifClosed,
                        conn, enc, dec, down>>
         /\ closePc' = closePc
         /\ closeReturns' = closeReturns + 1]_vars

\* Close was called twice and both calls returned.
C5_Witness == closeCalls = 2 /\ closeReturns = 2 /\ notifClosed

\* Close is running: it has set c.Closed and has not returned.
InClose == closePc \in {"waitWrite", "parked", "woken", "waitNotif"}

\* C6 as claimed: a Close that has started returns, also when the writer is
\* blocked on its transport.
C6_CloseTerminates == InClose ~> ~InClose

\* C7 as claimed: once a Read on h has timed out, a response for h's
\* identifier is discarded: the reader never holds it for h's channel.
C7_LateResponseDiscarded ==
    \A h \in Handles :
        (ReadReturned(h) /\ reads[h][1] = ReadTimedOut) =>
            /\ ~(rPc = "deliver" /\ rCh = h)
            /\ panic # "send on closed response channel"

\* C8 as claimed: once a Read on a pending handle has returned, the table
\* has no entry for the handle's identifier.
C8_SlotRetired ==
    \A h \in Handles :
        (Registered(h) /\ ReadReturned(h)) => reqId[h] \notin DOMAIN responses

\* C9 as claimed: a Read that waits for its response when Close has
\* returned comes back to its caller.
C9_CloseUnblocksRead ==
    \A h \in Handles :
        (readPc[h] = "waiting" /\ notifClosed) ~> (readPc[h] # "waiting")

\* C10 as claimed: a Send without want_response puts no identifier on the
\* request: none is on it when it is queued, in the writer's hand or
\* written; the Send registers no slot and leaves the table and the counter
\* as they were; it returns a handle that is not pending, and every Read on
\* it fails at once with "No pending responses!".
C10_NoResponseWanted ==
    /\ [](\A h \in Handles :
            (sendPc[h] # "idle" /\ ~want[h]) =>
              /\ ~resPending[h]
              /\ h \notin Range(responses)
              /\ readPc[h] = "idle"
              /\ \A k \in 1..Len(reads[h]) : reads[h][k] = NoPendingResponse
              /\ \A k \in 1..Len(write) : write[k].h = h => write[k].id = NoId
              /\ \A k \in 1..Len(wire) : wire[k].h = h => wire[k].id = NoId
              /\ InHand(h) => wReq.id = NoId)
    /\ [][\A h \in Handles :
            (panic' = "none" /\ sendPc'[h] # sendPc[h] /\ ~want'[h])
               => UNCHANGED <<responses, requestId, lockHolder>>]_vars

\* C11 as claimed: with c.Notifications full and never drained, the response
\* to a request that is on the transport still reaches the Read that waits
\* for it.
C11_ResponseNotStalled ==
    (readPc[1] = "waiting" /\ OnWire(1)) ~> (readPc[1] # "waiting")

\* C12 as claimed: c.Notifications never holds more than its capacity, and a
\* notification that meets the full queue goes in (the oldest one making
\* room for it): the reader holding it can complete its hand-over.
C12_FullQueueTakesNewest ==
    /\ Len(Notifications) <= QueueCap
    /\ (rPc = "notify" /\ Len(Notifications) = QueueCap) => ENABLED ReaderNotify

\* Where h's request stands on the transport.
Pos(h) == CHOOSE k \in 1..Len(wire) : wire[k].h = h

\* C13 as claimed: when a Send has returned before another Send is called,
\* the earlier request is encoded to the transport before the later one.
C13_FirstEncodedFirst ==
    \A g \in Handles : \A h \in Handles \ {g} :
        []((sendPc[g] = "done" /\ sendPc[h] = "idle") =>
             [](OnWire(h) => (OnWire(g) /\ Pos(g) < Pos(h))))

\* C13: when a Send has returned before another Send is called, the later
\* request is never encoded to the transport ahead of the earlier one: once
\* the later one is on the transport, the earlier one is neither queued nor
\* in the writer's hand, and if it was encoded it stands before the later.
C13_WriteOrder ==
    \A g \in Handles : \A h \in Handles \ {g} :
        []((sendPc[g] = "done" /\ sendPc[h] = "idle") =>
             [](OnWire(h) =>
                  /\ ~Queued(g)
                  /\ ~InHand(g)
                  /\ OnWire(g) => Pos(g) < Pos(h)))

\* Two Sends, one after the other, and a transport failure between the two
\* writes: both requests are on the transport, in the order of the calls.
C13_Witness ==
    /\ OnWire(1) /\ OnWire(2)
    /\ Pos(1) < Pos(2)
    /\ dials > 0

\* C14 as claimed: once c.Closed is true the reader does not go into connect
\* after a failed Decode, and no dial is made.
C14_NoDialAfterClose ==
    [][Closed =>
         /\ rPc' = "dial" => rPc = "dial"
         /\ panic' = "none" => dials' = dials]_vars

\* C15 as claimed: the reader and the writer are never inside connect at the
\* same time, and there are no more dials than transports that failed.
C15_ReconnectDeduplicated ==
    /\ ~(InConnect("reader") /\ InConnect("writer"))
    /\ dials <= Cardinality(down)

\* init has decided what New returns.
BootDecided == boot.pc \in {"returning", "returned"}
\* New succeeds.
BootOk == BootDecided /\ boot.err = ""

\* C16: New succeeds exactly when the response to JSONRPC.Version reports a
\* version.major of at least KODI_MIN_VERSION, and with a smaller major it
\* returns the "version too low" error.
C16_VersionCheck ==
    /\ BootOk <=>
         /\ boot.pc \notin {"dial", "query"}
         /\ boot.response.kind = "version"
         /\ boot.response.major2 >= 2 * KODI_MIN_VERSION
    /\ (/\ boot.response.kind = "version"
        /\ boot.response.major2 < 2 * KODI_MIN_VERSION)
         => /\ BootDecided
            /\ boot.err = "Kodi version too low, upgrade to Frodo or later"

\* New has refused a peer that reports major 5.5, after a dial that failed.
C16_Witness ==
    /\ boot.pc = "returned"
    /\ boot.response = VersionResponse(2 * KODI_MIN_VERSION - 1)
    /\ boot.err # ""
    /\ boot.attempts > 0

\* C17 as claimed: with a timeout configured, connect gives up once the
\* timeout is exceeded.  Every failed dial is followed by a sleep of one
\* second, so connect is not about to dial again after more failures than
\* the timeout has seconds.
C17_DialGivesUp ==
    (boot.pc = "dial" /\ boot.timeout > 0) => boot.attempts <= boot.timeout

\* C18: while init waits for the version response, its Read can time out
\* exactly when New was given a timeout greater than zero; a New that
\* returned without having received the response returned the timeout error.
C18_HandshakeTimeout ==
    /\ BootReading => (ENABLED BootTimeout <=> boot.timeout > 0)
    /\ (boot.pc = "returned" /\ boot.response = NoResponse) =>
         /\ boot.timeout > 0
         /\ boot.err = "Timeout waiting on response channel"

\* New, given a timeout of two seconds, has returned the timeout error.
C18_Witness ==
    /\ boot.pc = "returned"
    /\ boot.timeout = 2
    /\ boot.response = NoResponse
    /\ boot.err = "Timeout waiting on response channel"

\* The last of the outcomes s.
Last(s) == s[Len(s)]

\* C19: a Read that receives a response with an error object returns the
\* Kodi error made of that object's code and message, and no result; such a
\* response goes to the channel registered under its identifier like any
\* other, the reader then goes back to Decode on the same transport, and no
\* dial is made, neither when the response is decoded nor when it is
\* delivered.  Every Kodi error a Read has returned carries the code and the
\* message of an error object that the peer sent.
C19_RemoteError ==
    /\ [][/\ (rPc = "deliver" /\ rMsg.body = "error"
                /\ rPc' # "deliver" /\ panic' = "none")
             => /\ Len(reads'[rCh]) = Len(reads[rCh]) + 1
                /\ Last(reads'[rCh]).err = "Kodi error"
                /\ Last(reads'[rCh]).code = rMsg.code
                /\ Last(reads'[rCh]).message = rMsg.message
                /\ ~Last(reads'[rCh]).result
                /\ rPc' = "decode" /\ rDec' = dec
                /\ UNCHANGED <<conn, enc, dec, dials, down>>
          /\ (rPc = "decode" /\ rPc' = "deliver" /\ rMsg'.body = "error")
             => /\ rCh' = Lookup(ToUint32(rMsg'.id2))
                /\ UNCHANGED <<conn, enc, dec, dials, down, rDec>>
          /\ (rPc = "decode" /\ rPc' \in {"dial", "setEnc", "setDec"})
             => ~Up(rDec)]_vars
    /\ [](\A h \in Handles : \A k \in 1..Len(reads[h]) :
            LET o == reads[h][k] IN
              /\ o.err = "Kodi error"
                   => RpcError(o.code, o.message) \in PeerErrors /\ ~o.result
              /\ o.result => o.err = "")

\* Two Reads have returned the errors of their own responses, which differ
\* in code and in message, and no dial was made.
C19_Witness ==
    /\ reads[1] = <<KodiError(-32601, "Method not found.", 2 * reqId[1])>>
    /\ reads[2] = <<KodiError(-32602, "Invalid params.", 2 * reqId[2])>>
    /\ dials = 0

\* The statement of connect that follows the one at pc.
AfterConnectStep(pc) ==
    IF pc = "dial" THEN "setEnc" ELSE IF pc = "setEnc" THEN "setDec" ELSE "retry"

\* C20 as claimed: a request whose Encode fails stays in the writer's hand
\* while the writer reconnects; the writer then encodes that request once
\* more, takes nothing from the queue meanwhile, and goes back to the queue
\* whether the retry went through or not: the retry returns, it is not put
\* off for ever.  A request leaves the queue only to go into the writer's
\* hand, and it is written at most once by each of the two Encode calls.
C20_RetryOnce ==
    /\ [][panic' = "none" =>
            /\ (wPc = "recv" /\ wPc' # "recv")
                 => wPc' = "encode" /\ wReq' = Received /\ wire' = wire
            /\ wPc = "encode"
                 => \/ UNCHANGED <<wPc, wReq, wire>>
                    \/ wPc' = "recv" /\ wire' = Encoded(wire, wReq, wEnc)
                    \/ wPc' = "dial" /\ UNCHANGED <<wReq, wire>>
            /\ wPc \in {"dial", "setEnc", "setDec"}
                 => \/ UNCHANGED <<wPc, wReq, wire>>
                    \/ /\ wPc' = AfterConnectStep(wPc)
                       /\ UNCHANGED <<wReq, wire>>
            /\ wPc = "retry"
                 => \/ UNCHANGED <<wPc, wReq, wire>>
                    \/ /\ wPc' = "recv"
                       /\ wire' \in {wire, Encoded(wire, wReq, wEnc)}
            /\ wPc # "recv" /\ write # <<>>
                 => write' # <<>> /\ Head(write') = Head(write)
            /\ (write # <<>> /\ (write' = <<>> \/ Len(write') < Len(write)))
                 => wPc' = "encode" /\ wReq' = Head(write)]_vars
    /\ (wPc = "retry") ~> (wPc # "retry")
    /\ [](panic # "nil pointer dereference in Encode")

\* C21: once Close has closed c.write and the queue is drained, the writer
\* is out of its loop: it takes no further step and writes nothing more to
\* the transport.
C21_WriterExits ==
    [][(writeClosed /\ write = <<>> /\ panic' = "none")
          => UNCHANGED <<wPc, wReq, wire>>]_vars

\* The pending slots with identifier k: registered, Read not yet returned.
PendingSlot(k) == {h \in Handles : Live(h) /\ reqId[h] = k}

\* The reader drops the message: it is back at Decode, and no slot, handle
\* or queue has changed.
Discarded ==
    /\ rPc' = "decode"
    /\ UNCHANGED <<responses, chanClosed, resPending, reads, write,
                   Notifications, notificationWait>>

\* C22 as claimed: a message with an identifier goes to the pending slot
\* with that identifier when there is one and is discarded otherwise; a
\* message with a method and no identifier goes to the notification queue
\* only; a message with neither is discarded.
C22_Classified ==
    [][panic' = "none" =>
         /\ \A m \in PeerResponses :
              ReaderResponse(m) =>
                IF PendingSlot(ToUint32(m.id2)) # {}
                  THEN /\ rPc' = "deliver"
                       /\ rCh' \in PendingSlot(ToUint32(m.id2))
                       /\ rMsg' = m
                  ELSE Discarded
         /\ ReaderNotification =>
              /\ rPc' = "notify"
              /\ UNCHANGED <<responses, chanClosed, resPending, reads, write>>
         /\ ReaderDiscard => Discarded]_vars

\* C23 as claimed: a Decode that fails on a malformed payload makes the
\* reader skip that message and continue: it is back at Decode for the
\* message that follows, on the transport it had, without going to connect
\* and without a dial; no slot and no queue receives anything, no Read
\* returns and the process does not end.
C23_MalformedSkipped ==
    [][(\E e \in Malformed : ReaderMalformed(e))
          => /\ rPc' = "decode"
             /\ rDec' \in {rDec, dec}
             /\ UNCHANGED <<conn, enc, dec, dials, down, responses,
                            chanClosed, readPc, reads, Notifications,
                            notificationWait, write, panic>>]_vars

\* What a reconnect leaves alone: the table, the identifier counter, the
\* queues, the wait groups, every call and handle, what was written.
ConnectFrame ==
    UNCHANGED <<responses, requestId, lockHolder, write, writeClosed,
                Notifications, notifClosed, writeWait, notificationWait,
                sendVars, chanClosed, readVars, wire>>

\* The request r, written to a transport made by a reconnect that is still
\* up, waits for its response where no reader will decode it: both loops are
\* out of connect, the reader's Decode runs on another transport, and c.dec
\* is the decoder of another transport as well.
Stranded(r) ==
    /\ r.h \in Handles /\ Live(r.h)
    /\ r.on > 0 /\ Up(r.on)
    /\ ~InConnect("reader") /\ ~InConnect("writer")
    /\ rDec # r.on /\ dec # r.on

\* C24 as claimed: every step of connect (the dial that replaces conn,
\* whether it fails or succeeds, the new encoder, the new decoder) leaves the
\* table, the identifier counter, both queues and every handle as they were,
\* and the encoder and decoder it makes are those of the connection c.conn
\* then holds; and the response to a pending request that was written to
\* the new transport is delivered: the reader decodes, or will decode at its
\* next Decode, on the transport the request went out on.
C24_ReconnectFrame ==
    /\ [][panic' = "none" =>
            /\ conn' # conn
                 => /\ \E p \in Loops : LoopPc(p) = "dial"
                    /\ ConnectFrame
                    /\ conn' = NilConn \/ (conn' = dials' /\ dials' = dials + 1)
                    /\ UNCHANGED <<enc, dec>>
            /\ \A p \in Loops :
                 (InConnect(p) /\ LoopPc(p)' # LoopPc(p))
                    => /\ ConnectFrame
                       /\ LoopPc(p) = "dial"
                            => conn' = dials' /\ dials' = dials + 1
                               /\ UNCHANGED <<enc, dec>>
                       /\ LoopPc(p) = "setEnc"
                            => enc' = conn /\ UNCHANGED <<conn, dec, dials>>
                       /\ LoopPc(p) = "setDec"
                            => dec' = conn /\ UNCHANGED <<conn, enc, dials>>]_vars
    /\ [](\A k \in 1..Len(wire) : ~Stranded(wire[k]))

\* C25 as claimed: when the writer's Encode starts and when it returns, and
\* at every return of the reader's Decode, c.conn, c.enc and c.dec are those
\* of one connection.
C25_HandleConsistent ==
    [][(\/ WriterReceive
        \/ WriterEncode
        \/ WriterRetry
        \/ ReaderDiscard
        \/ ReaderDecodeError)
          => (enc = conn /\ dec = conn)]_vars

\* C26 as claimed: identifiers go up by one from call to call, and the
\* table entry of a request that is pending (registered, no Read returned)
\* is never replaced: an identifier comes round again only for a slot that
\* has been retired.
C26_IdReuse ==
    [][panic' = "none" =>
         /\ requestId' \in {requestId, NextRequestId(requestId)}
         /\ \A h \in Handles :
              (Live(h) /\ Lookup(reqId[h]) = h)
                 => reqId[h] \in DOMAIN responses' /\ responses'[reqId[h]] = h]_vars

\* r is the request of a Send with want_response.
BySend(r) == r.h \in Callers /\ want[r.h]

\* r carries an identifier that the table has an entry for.
Slotted(r) == r.id # NoId /\ r.id \in DOMAIN responses

BeforeEnqueue(h) == sendPc[h] \in {"lock", "register", "enqueue"}

\* C28 as claimed: once Close has closed c.write, no Send is on its way to
\* c.write <- req: the wait before the close has covered every one of them.
C28_NoSendOnClosed ==
    \A h \in Handles : writeClosed => ~BeforeEnqueue(h)

\* C29 as claimed: a reader that holds a response for a slot gets back to
\* Decode, and so to the messages that follow, whether or not the holder of
\* the handle calls Read.
C29_ReaderNotHeldByRead ==
    (rPc = "deliver") ~> (rPc # "deliver")

====
